---- MODULE Spec2Model ----
(***************************************************************************)
(* WalletManager (src/agent/src/utils/wallet_manager.py): the on-chain     *)
(* transaction pipeline of the backend wallet, run by callers that may be  *)
(* concurrent, against a network client (web3) and a chain.                *)
(*                                                                         *)
(* Amounts.  A request carries its amount in human units (a float).  The   *)
(* model writes a human amount as a whole number of HALF base units, so    *)
(* amount 3 is 1.5 base units: `balance / 10**decimals < amount` becomes   *)
(* balance * 2 < amount, and int(amount * 10**decimals) becomes            *)
(* amount \div 2 (int() truncates).                                        *)
(*                                                                         *)
(* Floats.  A Python float keeps 53 significant bits, fewer than the 60 a  *)
(* balance of one ether in wei has, so float(balance) is the NEAREST       *)
(* float, not the balance.  The numbers of the model are small, and so is  *)
(* its float: FloatBits significant bits, rounding to nearest, ties to     *)
(* even (FloatOf).  The amounts a request carries are floats themselves.   *)
(***************************************************************************)
EXTENDS Integers, Sequences, FiniteSets, TLC

\* ------------------------------------------------------------ bounds
\* The chain before the first operation: the native and the token balance of
\* an account, its allowance for the pool/vault, its vault shares.
InitBalance == 2
InitAllowance == 0
InitShares == 1
\* Time that passes between two polls of the receipt.
TimeStep == 150
\* Significant bits of a float.
FloatBits == 3
\* The largest balance an account starts a session with.
MaxBalance == 12

\* ------------------------------------------------------------ constants
\* The wait called without its timeout argument: the client's default of 120.
MaxCalc == 56
MaxReads == 2
MaxQuote == 6
MaxCalls == 4

ReceiptTimeoutOmitted == 100 + 20

\* wait_for_transaction_receipt(tx_hash, timeout=300)
ReceiptTimeout == 300
\* 2**256 - 1, the allowance approve_token(amount=None) sets; the model keeps
\* a stand-in that no sum of requested amounts reaches.
MaxUint256 == 1000

Procs == {"p1", "p2"}
Accounts == {"A", "B"}
Kinds == {"send_eth", "send_erc20", "approve_token", "supply_to_aave", "deposit", "redeem"}
\* Human amounts in half base units: 1.5 units and 2.5 units.
Amounts == {3, 5}
\* A gas_limit argument other than any default.
CustomGas == 60000
\* The amounts of a session: also 1 unit, 8 units and 12 units.
SessionAmounts == {2, 3, 5, 16, 24}
\* approve_token(amount=None)
NoAmount == 0 - 1
NoHash == 0
NoNonce == 0 - 1
NoStatus == 0 - 1
NotRead == 0 - 1
\* os.getenv of a variable that is not set
NoValue == "None"
\* The private keys an environment may hold, and the address of each.
KeyOf(a) == IF a = "A" THEN "kA" ELSE "kB"
EnvKeys == {NoValue, "", "kA", "malformed"}
EnvProjects == {NoValue, "", "id"}
EnvNetworks == {NoValue, "arbitrum", "testnet-x"}
\* The keys of `urls` in _get_infura_url
SupportedNetworks == {"mainnet", "sepolia", "polygon", "polygon-amoy", "arbitrum",
                      "optimism", "base"}
NoEnv == [key |-> NoValue, project |-> NoValue, network |-> NoValue]

VARIABLES
    \* the chain
    eth,        \* native balance of each account, in base units
    token,      \* token balance of each account, in base units
    allowance,  \* allowance(account, pool/vault), in base units
    shares,     \* vault shares of each account
    nonce,      \* the network's transaction count of each account
    pool,       \* the transactions the network accepted; a hash is an index
    \* the callers
    wallet,     \* the account of the WalletManager each caller uses
    pc,         \* where each caller's operation stands
    frame,      \* "approve" inside approve_token called by supply/deposit, else "main"
    req,        \* the operation's arguments
    checks,     \* the precondition checks the operation has evaluated
    seen,       \* the local `allowance`: what the allowance query returned
    cnt,        \* per transaction of the operation: builds, signs, sends
    txn,        \* per transaction of the operation: nonce, hash, receipt status
    waited,     \* time spent in the current receipt wait
    err,        \* the exception the operation raised
    result,     \* the dict the operation returned
    rejected,   \* the network refused a broadcast of the operation
    swallowed,  \* the operation caught an exception of a network query and went on
    \* the construction of each caller's WalletManager
    env,        \* the environment create_wallet_from_env reads
    connects,   \* connections to the provider attempted
    bootErr,    \* the exception the construction raised
    \* what the read-only and the stand-alone functions left behind
    view,       \* what each caller's last get_balance returned
    reads,      \* the get_balance calls each caller made
    calc,       \* an amount on its way to base units and back
    tool,       \* a call of send_eth_from_smart_wallet: configuration, answers, output
    quote,      \* a send_eth followed from its balance check to the node's answer
    x402        \* the ServerX402 object: its streams, its statistics, its last return

chainVars == <<eth, token, allowance, shares, nonce, pool>>
opVars == <<pc, frame, req, checks, seen, cnt, txn, waited, err, result, rejected,
           swallowed>>
bootVars == <<wallet, env, connects, bootErr>>
sideVars == <<view, reads, calc, tool, quote, x402>>
vars == <<eth, token, allowance, shares, nonce, pool, wallet, pc, frame, req,
          checks, seen, cnt, txn, waited, err, result, rejected, swallowed,
          env, connects, bootErr, view, reads, calc, tool,
          quote, x402>>

\* The gas_limit argument left at its default.
NoGas == 0
NoReq == [kind |-> "none", amount |-> NoAmount, auto_approve |-> FALSE, owner |-> "none",
          receiver |-> "none", gas_limit |-> NoGas]
\* What get_balance returned: the dict, with the height of the chain the query
\* was answered at; NoReturn before any call, NoneReturn for `return None`.
\* A caller keeps the return of its last call and of the one before.
NoReturn == [address |-> "none", balance_wei |-> NotRead, balance_eth |-> NotRead,
             block |-> NotRead]
NoneReturn == [address |-> "None", balance_wei |-> NotRead, balance_eth |-> NotRead,
               block |-> NotRead]
NoView == [last |-> NoReturn, prev |-> NoReturn]
NoCalc == [stage |-> "none"]
NoTool == [stage |-> "none"]
NoQuote == [stage |-> "none"]
NoX402 == [stage |-> "none"]
Idle ==
    /\ view = [p \in Procs |-> NoView]
    /\ reads = [p \in Procs |-> 0]
    /\ calc = NoCalc
    /\ tool = NoTool
    /\ quote = NoQuote
    /\ x402 = NoX402
NoErr == [kind |-> "none", stage |-> "none", tx_hash |-> NoHash]
NoResult == [tx_hash |-> NoHash, status |-> "none", extra |-> 0]
ZeroCnt == [builds |-> 0, signs |-> 0, sends |-> 0]
NoTxn == [nonce |-> NoNonce, tx_hash |-> NoHash, status |-> NoStatus]

\* amount_units = int(amount * (10 ** decimals)); 2**256 - 1 for amount=None
AmountUnits(amount) == IF amount = NoAmount THEN MaxUint256 ELSE amount \div 2

RECURSIVE Pow2(_)
Pow2(e) == IF e = 0 THEN 1 ELSE 2 * Pow2(e - 1)

\* The spacing of the floats around n: the least power of two s with
\* n < 2**FloatBits * s.
RECURSIVE UlpFrom(_, _)
UlpFrom(n, s) == IF n < Pow2(FloatBits) * s THEN s ELSE UlpFrom(n, 2 * s)

\* float(n): the float nearest to n, the even one of two equally near.
FloatOf(n) ==
    LET s == UlpFrom(n, 1)
        q == n \div s
        r == n % s
    IN  IF 2 * r < s THEN q * s
        ELSE IF 2 * r > s THEN (q + 1) * s
        ELSE IF q % 2 = 0 THEN q * s
        ELSE (q + 1) * s

\* a / b as Python divides two ints: the float nearest to the quotient.
FloatOfRatio(a, b) ==
    LET s == UlpFrom(a \div b, 1)
        q == a \div (b * s)
        r == a % (b * s)
    IN  IF 2 * r < b * s THEN q * s
        ELSE IF 2 * r > b * s THEN (q + 1) * s
        ELSE IF q % 2 = 0 THEN q * s
        ELSE (q + 1) * s

\* The conversions on their own: the human amounts are floats counted in
\* 1/Grain of a token, none above MaxCalc / Grain tokens, and the token has
\* no decimals or one.
Grain == 8
CalcAmounts == {n \in 1..MaxCalc : FloatOf(n) = n}
CalcDecimals == {0, 1}

\* balance_tokens < amount, with balance_tokens = balance / (10 ** decimals)
\* (send_eth: balance['balance_eth'] < amount_eth, with
\* balance_eth = float(from_wei(balance_wei, 'ether'))): a float comparison.
BalanceTooLow(balance, amount) == FloatOf(balance * 2) < amount

\* The shares compared as a token amount is: scaled by the decimals.
SharesTooLowScaled(balance, amount) == balance * 2 < amount

\* shares_units = int(shares); shares_balance < shares_units
SharesTooLow(balance, amount) == balance < amount \div 2

Init ==
    /\ eth = [a \in Accounts |-> InitBalance]
    /\ token = [a \in Accounts |-> InitBalance]
    /\ allowance = [a \in Accounts |-> InitAllowance]
    /\ shares = [a \in Accounts |-> InitShares]
    /\ nonce = [a \in Accounts |-> 0]
    /\ pool = <<>>
    /\ wallet \in {w \in [Procs -> Accounts] : w["p1"] = "A"}
    /\ pc = [p \in Procs |-> "idle"]
    /\ frame = [p \in Procs |-> "main"]
    /\ req = [p \in Procs |-> NoReq]
    /\ checks = [p \in Procs |-> {}]
    /\ seen = [p \in Procs |-> NotRead]
    /\ cnt = [p \in Procs |-> [approve |-> ZeroCnt, main |-> ZeroCnt]]
    /\ txn = [p \in Procs |-> [approve |-> NoTxn, main |-> NoTxn]]
    /\ waited = [p \in Procs |-> 0]
    /\ err = [p \in Procs |-> NoErr]
    /\ result = [p \in Procs |-> NoResult]
    /\ rejected = [p \in Procs |-> FALSE]
    /\ swallowed = [p \in Procs |-> FALSE]
    /\ env = [p \in Procs |-> [key |-> KeyOf(wallet[p]), project |-> "id",
                                network |-> NoValue]]
    /\ connects = [p \in Procs |-> 1]
    /\ bootErr = [p \in Procs |-> "none"]
    /\ Idle

\* The environment used without a look at what it holds.
AbsentNever(value) == FALSE

\* if not private_key / if not infura_project_id: None and '' are both falsy.
Absent(value) == value \in {NoValue, ""}
\* A constructor that notes the failed connection and returns the object all the same.
NewWalletManagerUnchecked(p, private_key, network) ==
    /\ connects' = [connects EXCEPT ![p] = @ + 1]
    /\ \E connected \in BOOLEAN :
         bootErr' = [bootErr EXCEPT ![p] = IF connected THEN "none" ELSE "ConnectionError"]
    /\ wallet' = [wallet EXCEPT ![p] = IF private_key = "kB" THEN "B" ELSE "A"]

\* WalletManager.__init__: the provider url of the network, the connection and
\* its check, the account of the key.
NewWalletManager(p, private_key, network) ==
    IF network \notin SupportedNetworks
    THEN /\ bootErr' = [bootErr EXCEPT ![p] = "UnsupportedNetwork"]
         /\ UNCHANGED <<wallet, connects>>
    ELSE /\ connects' = [connects EXCEPT ![p] = @ + 1]
         /\ \E connected \in BOOLEAN :
              IF ~connected
              THEN /\ bootErr' = [bootErr EXCEPT ![p] = "ConnectionError"]
                   /\ UNCHANGED wallet
              ELSE IF private_key \notin {"kA", "kB"}
              THEN /\ bootErr' = [bootErr EXCEPT ![p] = "InvalidKey"]
                   /\ UNCHANGED wallet
              ELSE /\ wallet' = [wallet EXCEPT ![p] = IF private_key = "kA" THEN "A" ELSE "B"]
                   /\ UNCHANGED bootErr

\* create_wallet_from_env(): the three variables are read, the key and the
\* project id are looked at, and the WalletManager is constructed.
CreateWalletFromEnv(p) ==
    /\ wallet[p] = "none"
    /\ bootErr[p] = "none"
    /\ IF Absent(env[p].key) \/ Absent(env[p].project)
       THEN /\ bootErr' = [bootErr EXCEPT ![p] = "ConfigurationError"]
            /\ UNCHANGED <<wallet, connects>>
       ELSE NewWalletManager(p, env[p].key,
                IF env[p].network = NoValue THEN "sepolia" ELSE env[p].network)
    /\ UNCHANGED <<chainVars, opVars, env, sideVars>>

\* An exception leaves the operation: nothing catches it in WalletManager.
Raise(p, kind, hash) ==
    /\ pc' = [pc EXCEPT ![p] = "failed"]
    /\ err' = [err EXCEPT ![p] = [kind |-> kind, stage |-> frame[p], tx_hash |-> hash]]

\* A caller invokes an operation of its WalletManager; each caller makes one
\* call, at any time before, during or after the other's.
Start(p, request) ==
    /\ pc[p] = "idle"
    /\ wallet[p] # "none"
    /\ req' = [req EXCEPT ![p] = request]
    /\ pc' = [pc EXCEPT ![p] = IF request.kind = "approve_token" THEN "build" ELSE "validate"]
    /\ frame' = [frame EXCEPT ![p] = "main"]
    /\ checks' = [checks EXCEPT ![p] = {}]
    /\ seen' = [seen EXCEPT ![p] = NotRead]
    /\ cnt' = [cnt EXCEPT ![p] = [approve |-> ZeroCnt, main |-> ZeroCnt]]
    /\ txn' = [txn EXCEPT ![p] = [approve |-> NoTxn, main |-> NoTxn]]
    /\ waited' = [waited EXCEPT ![p] = 0]
    /\ err' = [err EXCEPT ![p] = NoErr]
    /\ result' = [result EXCEPT ![p] = NoResult]
    /\ rejected' = [rejected EXCEPT ![p] = FALSE]
    /\ swallowed' = [swallowed EXCEPT ![p] = FALSE]
    /\ UNCHANGED <<chainVars, bootVars, sideVars>>

\* The transaction the caller is working on, and what it carries.
TxKind(p) == IF frame[p] = "approve" THEN "approve_token" ELSE req[p].kind
TxAmount(p) == IF frame[p] = "approve" THEN NoAmount ELSE req[p].amount

\* owner = Web3.to_checksum_address(owner) if owner else self.address
Owner(p) == IF req[p].owner = "none" THEN wallet[p] ELSE req[p].owner

\* The token and the spender of an approve, by the argument the address comes
\* from: supply_to_aave calls approve_token(token_address=asset_address,
\* spender_address=pool_address, amount=None), deposit
\* approve_token(token_address=token_address, spender_address=contract_address,
\* amount=None); approve_token called on its own uses its two arguments.
TxToken(p) ==
    IF TxKind(p) # "approve_token" THEN "none"
    ELSE IF req[p].kind = "supply_to_aave" THEN "asset_address"
    ELSE "token_address"
TxSpender(p) ==
    IF TxKind(p) # "approve_token" THEN "none"
    ELSE IF req[p].kind = "supply_to_aave" THEN "pool_address"
    ELSE IF req[p].kind = "deposit" THEN "contract_address"
    ELSE "spender_address"

\* receiver = Web3.to_checksum_address(receiver) if receiver else self.address
Receiver(p) == IF req[p].receiver = "none" THEN wallet[p] ELSE req[p].receiver

\* One gas limit for every transaction, contract call or not.
GasLimitOfCalls(kind) == IF kind = "redeem" THEN 500000 ELSE 100000

\* 'gas': 21000 in send_eth; the gas_limit parameter and its default elsewhere.
GasLimit(kind) ==
    IF kind = "send_eth" THEN 21000
    ELSE IF kind \in {"send_erc20", "approve_token"} THEN 100000
    ELSE 500000

\* A gas limit estimated from the chain: the more the sender holds, the more.
TxGasEstimated(p) == 21000 + token[wallet[p]]

\* The 'gas' of the transaction being built: 21000 in send_eth, the gas_limit
\* argument in the contract calls; the approve_token call inside supply_to_aave
\* and deposit passes no gas_limit.
TxGas(p) ==
    IF frame[p] = "approve" THEN GasLimit("approve_token")
    ELSE IF req[p].kind = "send_eth" \/ req[p].gas_limit = NoGas THEN GasLimit(req[p].kind)
    ELSE req[p].gas_limit

\* The balance check followed at once by the signature.
AfterValidateSigns(p) == "sign"

\* Where the operation goes once its balance check passed.
AfterValidate(p) ==
    IF req[p].kind \in {"supply_to_aave", "deposit"} /\ req[p].auto_approve
    THEN "allowance"
    ELSE "build"

\* "# Verificar balance": the balance (or share) query and its comparison.
\* send_eth asks get_balance(), which swallows a failed query and returns
\* None, so the subscript balance['balance_eth'] raises TypeError; the other
\* operations call the contract directly and its exception propagates.
Validate(p) ==
    /\ pc[p] = "validate"
    /\ \E rpcOk \in BOOLEAN :
        LET w == wallet[p]
            k == req[p].kind
            a == req[p].amount
        IN  IF ~rpcOk
            THEN /\ Raise(p, IF k = "send_eth" THEN "TypeError" ELSE "RpcError", NoHash)
                 /\ swallowed' = [swallowed EXCEPT ![p] = (k = "send_eth")]
                 /\ UNCHANGED checks
            ELSE /\ checks' = [checks EXCEPT ![p] = @ \cup {"balance"}]
                 /\ UNCHANGED swallowed
                 /\ IF k = "send_eth" /\ BalanceTooLow(eth[w], a)
                    THEN Raise(p, "InsufficientBalance", NoHash)
                    ELSE IF k \in {"send_erc20", "supply_to_aave", "deposit"}
                            /\ BalanceTooLow(token[w], a)
                    THEN Raise(p, "InsufficientBalance", NoHash)
                    ELSE IF k = "redeem" /\ SharesTooLow(shares[Owner(p)], a)
                    THEN Raise(p, "InsufficientShares", NoHash)
                    ELSE /\ pc' = [pc EXCEPT ![p] = AfterValidate(p)]
                         /\ UNCHANGED err
    /\ UNCHANGED <<chainVars, bootVars, sideVars, frame, req, seen, cnt, txn, waited, result, rejected>>

\* An approve sent also when the allowance is exactly the amount.
NeedsApproveOrEqual(allowed, units) == allowed <= units

\* if allowance < amount_units
NeedsApprove(allowed, units) == allowed < units

\* "# Verificar y aprobar si es necesario": under auto_approve, the allowance
\* query; an allowance below amount_units calls approve_token(amount=None).
CheckAllowance(p) ==
    /\ pc[p] = "allowance"
    /\ \E rpcOk \in BOOLEAN :
        IF ~rpcOk
        THEN /\ Raise(p, "RpcError", NoHash)
             /\ UNCHANGED <<checks, seen, frame>>
        ELSE /\ checks' = [checks EXCEPT ![p] = @ \cup {"allowance"}]
             /\ seen' = [seen EXCEPT ![p] = allowance[wallet[p]]]
             /\ frame' = [frame EXCEPT ![p] =
                    IF NeedsApprove(allowance[wallet[p]], AmountUnits(req[p].amount))
                    THEN "approve" ELSE "main"]
             /\ pc' = [pc EXCEPT ![p] = "build"]
             /\ UNCHANGED err
    /\ UNCHANGED <<chainVars, bootVars, sideVars, req, cnt, txn, waited, result, rejected, swallowed>>
\* A nonce asked for once in an operation and kept for its later transactions.
NonceCached(p) ==
    IF txn[p]["approve"].nonce # NoNonce THEN txn[p]["approve"].nonce ELSE nonce[wallet[p]]

\* 'nonce': self.w3.eth.get_transaction_count(self.address), asked for inside
\* build_transaction's argument.
NonceRead(p) == nonce[wallet[p]]

\* "# Preparar transaccion": gas price, nonce and chain id are queried and the
\* unsigned transaction is assembled.
Build(p) ==
    /\ pc[p] = "build"
    /\ \E rpcOk \in BOOLEAN :
        IF ~rpcOk
        THEN /\ Raise(p, "RpcError", NoHash)
             /\ UNCHANGED <<cnt, txn>>
        ELSE /\ cnt' = [cnt EXCEPT ![p][frame[p]].builds = @ + 1]
             /\ txn' = [txn EXCEPT ![p][frame[p]].nonce = NonceRead(p)]
             /\ pc' = [pc EXCEPT ![p] = "sign"]
             /\ UNCHANGED err
    /\ UNCHANGED <<chainVars, bootVars, sideVars, frame, req, checks, seen, waited, result, rejected, swallowed>>

\* "# Firmar": self.account.sign_transaction(tx)
Sign(p) ==
    /\ pc[p] = "sign"
    /\ cnt' = [cnt EXCEPT ![p][frame[p]].signs = @ + 1]
    /\ pc' = [pc EXCEPT ![p] = "send"]
    /\ UNCHANGED <<chainVars, bootVars, sideVars, frame, req, checks, seen, txn, waited, err, result, rejected, swallowed>>

\* What the network does with a raw transaction it is sent: it takes it when
\* the node is willing and the nonce is the account's next one.  The count
\* get_transaction_count reports grows only when a sent transaction is taken.
Accepts(p, willing) == willing /\ txn[p][frame[p]].nonce = nonce[wallet[p]]

\* A refused broadcast caught and the transaction built again.
BroadcastRetried(p) ==
    /\ pc' = [pc EXCEPT ![p] = "build"]
    /\ UNCHANGED <<chainVars, txn, waited, err>>

\* A refused broadcast caught and the operation carried on to the receipt wait.
BroadcastRefusalSwallowed(p) ==
    /\ pc' = [pc EXCEPT ![p] = "wait"]
    /\ UNCHANGED <<chainVars, txn, waited, err>>

\* The step after a refused broadcast: send_raw_transaction's exception
\* leaves the operation.
BroadcastRefused(p) ==
    /\ Raise(p, "BroadcastError", NoHash)
    /\ UNCHANGED <<chainVars, txn, waited>>

\* "# Enviar": self.w3.eth.send_raw_transaction(signed_tx.raw_transaction)
Broadcast(p) ==
    /\ pc[p] = "send"
    /\ cnt' = [cnt EXCEPT ![p][frame[p]].sends = @ + 1]
    /\ \E willing \in BOOLEAN :
        IF Accepts(p, willing)
        THEN /\ pool' = Append(pool, [from |-> wallet[p], nonce |-> txn[p][frame[p]].nonce,
                                      kind |-> TxKind(p), units |-> AmountUnits(TxAmount(p)),
                                      owner |-> Owner(p), receiver |-> Receiver(p),
                                      gas |-> TxGas(p),
                                      token |-> TxToken(p), spender |-> TxSpender(p),
                                      status |-> "pending"])
             /\ nonce' = [nonce EXCEPT ![wallet[p]] = @ + 1]
             /\ txn' = [txn EXCEPT ![p][frame[p]].tx_hash = Len(pool) + 1]
             /\ waited' = [waited EXCEPT ![p] = 0]
             /\ pc' = [pc EXCEPT ![p] = "wait"]
             /\ UNCHANGED <<eth, token, allowance, shares, err, rejected>>
        ELSE /\ rejected' = [rejected EXCEPT ![p] = TRUE]
             /\ BroadcastRefused(p)
    /\ UNCHANGED <<bootVars, sideVars, frame, req, checks, seen, result, swallowed>>

\* A receipt handed out whether or not the transaction is mined.
PendingIgnored(p) == FALSE

\* The transaction of the current receipt wait is not mined yet.
Pending(p) ==
    LET h == txn[p][frame[p]].tx_hash
    IN  h = NoHash \/ pool[h].status = "pending"

\* wait_for_transaction_receipt polls: time passes and no receipt is there.
Tick(p) ==
    /\ pc[p] = "wait"
    /\ Pending(p)
    /\ waited[p] < ReceiptTimeout
    /\ waited' = [waited EXCEPT ![p] = @ + TimeStep]
    /\ UNCHANGED <<chainVars, bootVars, sideVars, pc, frame, req, checks, seen, cnt, txn, err, result, rejected, swallowed>>

\* wait_for_transaction_receipt(tx_hash, timeout=300) gives up: the client's
\* TimeExhausted (its message names the hash) leaves the operation.
ReceiptTimedOut(p) ==
    /\ pc[p] = "wait"
    /\ Pending(p)
    /\ waited[p] >= ReceiptTimeout
    /\ Raise(p, "ConfirmationTimeout", txn[p][frame[p]].tx_hash)
    /\ UNCHANGED <<chainVars, bootVars, sideVars, frame, req, checks, seen, cnt, txn, waited, result, rejected, swallowed>>

\* A poll of the receipt fails in the transport: the client's exception
\* leaves the operation as it is, and nothing of the operation is added to it.
ReceiptError(p) ==
    /\ pc[p] = "wait"
    /\ Raise(p, "RpcError", NoHash)
    /\ UNCHANGED <<chainVars, bootVars, sideVars, frame, req, checks, seen, cnt, txn, waited, result, rejected, swallowed>>

\* wait_for_transaction_receipt returns the receipt of the mined transaction.
Receipt(p) ==
    /\ pc[p] = "wait"
    /\ ~Pending(p)
    /\ txn' = [txn EXCEPT ![p][frame[p]].status =
                  IF pool[txn[p][frame[p]].tx_hash].status = "success" THEN 1 ELSE 0]
    /\ waited' = [waited EXCEPT ![p] = 0]
    /\ pc' = [pc EXCEPT ![p] = "status"]
    /\ UNCHANGED <<chainVars, bootVars, sideVars, frame, req, checks, seen, cnt, err, result, rejected, swallowed>>

\* The status reported without a look at the receipt's bit.
StatusOfBroadcast(bit) == "success"

\* status = 'success' if receipt['status'] == 1 else 'failed'
StatusOf(bit) == IF bit = 1 THEN "success" ELSE "failed"

\* The approve result used without a look at its status.
ApproveResultIgnored(status) == TRUE

\* if approve_result['status'] != 'success': raise ValueError(...)
ApproveResultOk(status) == status = "success"

\* deposit and redeem read a balance once the receipt says success: deposit the
\* vault's balanceOf(receiver), in base units; redeem the token's
\* balanceOf(receiver) / (10 ** decimals), a float in human units (half base
\* units here); a failed read is swallowed (except Exception: pass) and leaves 0.
PostRead(p, rpcOk) ==
    IF ~rpcOk THEN 0
    ELSE IF req[p].kind = "deposit" THEN shares[Receiver(p)]
    ELSE IF req[p].kind = "redeem" THEN FloatOf(token[Receiver(p)] * 2)
    ELSE 0

ReadsAfterReceipt(p) ==
    /\ frame[p] = "main"
    /\ req[p].kind \in {"deposit", "redeem"}
    /\ txn[p]["main"].status = 1

\* The end of a pipeline: the status is computed and the dict returned.  In
\* approve_token called by supply_to_aave/deposit the dict goes back to the
\* caller's check of its status, and then on to the main transaction.
Return(p) ==
    /\ pc[p] = "status"
    /\ LET st == StatusOf(txn[p][frame[p]].status)
       IN  IF frame[p] = "approve"
           THEN IF ApproveResultOk(st)
                THEN /\ frame' = [frame EXCEPT ![p] = "main"]
                     /\ pc' = [pc EXCEPT ![p] = "build"]
                     /\ UNCHANGED <<err, result, swallowed>>
                ELSE /\ Raise(p, "ApprovalFailed", txn[p]["approve"].tx_hash)
                     /\ UNCHANGED <<frame, result, swallowed>>
           ELSE \E rpcOk \in (IF ReadsAfterReceipt(p) THEN BOOLEAN ELSE {TRUE}) :
                /\ result' = [result EXCEPT ![p] =
                       [tx_hash |-> txn[p]["main"].tx_hash, status |-> st,
                        extra |-> IF ReadsAfterReceipt(p) THEN PostRead(p, rpcOk) ELSE 0]]
                /\ swallowed' = [swallowed EXCEPT ![p] = ~rpcOk]
                /\ pc' = [pc EXCEPT ![p] = "done"]
                /\ UNCHANGED <<err, frame>>
    /\ UNCHANGED <<chainVars, bootVars, sideVars, req, checks, seen, cnt, txn, waited, rejected>>

\* ------------------------------------------------------------ the chain
\* Whether the chain can execute a transaction in the state it is mined in.
Executes(tx) ==
    CASE tx.kind = "send_eth" -> eth[tx.from] >= tx.units
      [] tx.kind = "send_erc20" -> token[tx.from] >= tx.units
      [] tx.kind = "approve_token" -> TRUE
      [] tx.kind \in {"supply_to_aave", "deposit"} ->
            token[tx.from] >= tx.units /\ allowance[tx.from] >= tx.units
      [] tx.kind = "redeem" -> shares[tx.owner] >= tx.units

\* The chain mines a pending transaction, in the nonce order of its sender.
\* A contract call may revert for a reason of the contract's own: it ran out
\* of its fixed gas limit, or the owner of redeemed shares gave the sender no
\* allowance for them.
Mine(h) ==
    /\ h \in 1..Len(pool)
    /\ pool[h].status = "pending"
    /\ \A g \in 1..(h - 1) : pool[g].from = pool[h].from => pool[g].status # "pending"
    /\ \E gasOk \in (IF pool[h].kind = "send_eth" THEN {TRUE} ELSE BOOLEAN) :
        LET tx == pool[h]
            a == tx.from
            ok == gasOk /\ Executes(tx)
        IN  /\ pool' = [pool EXCEPT ![h].status = IF ok THEN "success" ELSE "reverted"]
            /\ eth' = IF ok /\ tx.kind = "send_eth"
                      THEN [eth EXCEPT ![a] = @ - tx.units] ELSE eth
            /\ token' = IF ok /\ tx.kind \in {"send_erc20", "supply_to_aave", "deposit"}
                        THEN [token EXCEPT ![a] = @ - tx.units]
                        ELSE IF ok /\ tx.kind = "redeem"
                        THEN [token EXCEPT ![tx.receiver] = @ + tx.units]
                        ELSE token
            /\ allowance' = IF ok /\ tx.kind = "approve_token"
                            THEN [allowance EXCEPT ![a] = tx.units]
                            ELSE IF ok /\ tx.kind \in {"supply_to_aave", "deposit"}
                            THEN [allowance EXCEPT ![a] = @ - tx.units]
                            ELSE allowance
            /\ shares' = IF ok /\ tx.kind = "deposit"
                         THEN [shares EXCEPT ![tx.receiver] = @ + tx.units]
                         ELSE IF ok /\ tx.kind = "redeem"
                         THEN [shares EXCEPT ![tx.owner] = @ - tx.units]
                         ELSE shares
    /\ UNCHANGED <<nonce, bootVars, sideVars, opVars>>

\* ------------------------------------------------------------ the system
Call(p) ==
    \E kind \in Kinds :
    \E amount \in (IF kind = "approve_token" THEN Amounts \cup {NoAmount} ELSE Amounts) :
    \E auto \in (IF kind \in {"supply_to_aave", "deposit"} THEN BOOLEAN ELSE {TRUE}) :
        Start(p, [kind |-> kind, amount |-> amount, auto_approve |-> auto,
                  owner |-> "none", receiver |-> "none", gas_limit |-> NoGas])

Next ==
    \/ \E p \in Procs : Call(p)
    \/ \E p \in Procs : Validate(p)
    \/ \E p \in Procs : CheckAllowance(p)
    \/ \E p \in Procs : Build(p)
    \/ \E p \in Procs : Sign(p)
    \/ \E p \in Procs : Broadcast(p)
    \/ \E p \in Procs : Tick(p)
    \/ \E p \in Procs : ReceiptTimedOut(p)
    \/ \E p \in Procs : ReceiptError(p)
    \/ \E p \in Procs : Receipt(p)
    \/ \E p \in Procs : Return(p)
    \/ \E h \in 1..Len(pool) : Mine(h)

Spec == Init /\ [][Next]_vars

\* ------------------------------------------------------------ one session
\* One process from its start: the wallet is created from the environment and
\* one operation is called on it, over a wider range of balances, amounts and
\* owners than the concurrent callers above are given.
InitSession ==
    /\ \E b \in 0..MaxBalance :
          /\ eth = [a \in Accounts |-> b]
          /\ token = [a \in Accounts |-> b]
    /\ allowance = [a \in Accounts |-> InitAllowance]
    /\ shares = [a \in Accounts |-> IF a = "A" THEN InitShares ELSE InitShares + 1]
    /\ nonce = [a \in Accounts |-> 0]
    /\ pool = <<>>
    /\ wallet = [p \in Procs |-> "none"]
    /\ pc = [p \in Procs |-> "idle"]
    /\ frame = [p \in Procs |-> "main"]
    /\ req = [p \in Procs |-> NoReq]
    /\ checks = [p \in Procs |-> {}]
    /\ seen = [p \in Procs |-> NotRead]
    /\ cnt = [p \in Procs |-> [approve |-> ZeroCnt, main |-> ZeroCnt]]
    /\ txn = [p \in Procs |-> [approve |-> NoTxn, main |-> NoTxn]]
    /\ waited = [p \in Procs |-> 0]
    /\ err = [p \in Procs |-> NoErr]
    /\ result = [p \in Procs |-> NoResult]
    /\ rejected = [p \in Procs |-> FALSE]
    /\ swallowed = [p \in Procs |-> FALSE]
    /\ \E k \in EnvKeys, j \in EnvProjects, n \in EnvNetworks :
          env = [p \in Procs |-> IF p = "p1" THEN [key |-> k, project |-> j, network |-> n]
                                 ELSE NoEnv]
    /\ connects = [p \in Procs |-> 0]
    /\ bootErr = [p \in Procs |-> "none"]
    /\ Idle

CallSession(p) ==
    \E kind \in Kinds :
    \E amount \in (IF kind = "approve_token" THEN SessionAmounts \cup {NoAmount}
                   ELSE SessionAmounts) :
    \E auto \in (IF kind \in {"supply_to_aave", "deposit"} THEN BOOLEAN ELSE {TRUE}) :
    \E owner \in (IF kind = "redeem" THEN Accounts \cup {"none"} ELSE {"none"}) :
    \E receiver \in (IF kind \in {"deposit", "redeem"} THEN Accounts \cup {"none"}
                     ELSE {"none"}) :
    \E gas \in (IF kind = "send_eth" THEN {NoGas} ELSE {NoGas, CustomGas}) :
        Start(p, [kind |-> kind, amount |-> amount, auto_approve |-> auto,
                  owner |-> owner, receiver |-> receiver, gas_limit |-> gas])

NextSession ==
    \/ CreateWalletFromEnv("p1")
    \/ CallSession("p1")
    \/ Validate("p1")
    \/ CheckAllowance("p1")
    \/ Build("p1")
    \/ Sign("p1")
    \/ Broadcast("p1")
    \/ Tick("p1")
    \/ ReceiptTimedOut("p1")
    \/ ReceiptError("p1")
    \/ Receipt("p1")
    \/ Return("p1")
    \/ \E h \in 1..Len(pool) : Mine(h)

SpecSession == InitSession /\ [][NextSession]_vars

\* ---------------------------------------------------------------------------
\* The conversions between human units and base units, taken out of the
\* operations: an amount is made base units as send_erc20 makes it, and the
\* base units are made tokens again as get_token_balance reports a balance.

RECURSIVE Pow10(_)
Pow10(d) == IF d = 0 THEN 1 ELSE 10 * Pow10(d - 1)

InitUnits ==
    /\ eth = [a \in Accounts |-> InitBalance]
    /\ token = [a \in Accounts |-> InitBalance]
    /\ allowance = [a \in Accounts |-> InitAllowance]
    /\ shares = [a \in Accounts |-> InitShares]
    /\ nonce = [a \in Accounts |-> 0]
    /\ pool = <<>>
    /\ wallet = [p \in Procs |-> "none"]
    /\ pc = [p \in Procs |-> "idle"]
    /\ frame = [p \in Procs |-> "main"]
    /\ req = [p \in Procs |-> NoReq]
    /\ checks = [p \in Procs |-> {}]
    /\ seen = [p \in Procs |-> NotRead]
    /\ cnt = [p \in Procs |-> [approve |-> ZeroCnt, main |-> ZeroCnt]]
    /\ txn = [p \in Procs |-> [approve |-> NoTxn, main |-> NoTxn]]
    /\ waited = [p \in Procs |-> 0]
    /\ err = [p \in Procs |-> NoErr]
    /\ result = [p \in Procs |-> NoResult]
    /\ rejected = [p \in Procs |-> FALSE]
    /\ swallowed = [p \in Procs |-> FALSE]
    /\ env = [p \in Procs |-> NoEnv]
    /\ connects = [p \in Procs |-> 0]
    /\ bootErr = [p \in Procs |-> "none"]
    /\ view = [p \in Procs |-> NoView]
    /\ reads = [p \in Procs |-> 0]
    /\ tool = NoTool
    /\ quote = NoQuote
    /\ x402 = NoX402
    /\ \E a \in CalcAmounts, d \in CalcDecimals :
         calc = [stage |-> "amount", amount |-> a, decimals |-> d,
                 units |-> NotRead, tokens |-> NotRead]

\* amount_units = int(amount * (10 ** decimals)): the product is a float, and
\* int() drops its fraction.
ToUnits ==
    /\ calc.stage = "amount"
    /\ calc' = [calc EXCEPT !.stage = "units",
                            !.units = FloatOf(calc.amount * Pow10(calc.decimals)) \div Grain]
    /\ UNCHANGED <<chainVars, opVars, bootVars, view, reads, tool, quote, x402>>

\* balance_tokens = balance_raw / (10 ** decimals)
ToTokens ==
    /\ calc.stage = "units"
    /\ calc' = [calc EXCEPT !.stage = "tokens",
                            !.tokens = FloatOfRatio(calc.units * Grain, Pow10(calc.decimals))]
    /\ UNCHANGED <<chainVars, opVars, bootVars, view, reads, tool, quote, x402>>

NextUnits == ToUnits \/ ToTokens

SpecUnits == InitUnits /\ [][NextUnits]_vars

\* ---------------------------------------------------------------------------
\* get_balance beside a transfer: one caller asks for balances, up to MaxReads
\* times, while the other sends ETH and the network mines.

\* The blocks mined so far: one for each transaction that left the pool.
Height == Cardinality({h \in 1..Len(pool) : pool[h].status # "pending"})

\* A balance that counts the transactions still waiting in the pool.
BalanceWithPending(address) ==
    eth[address] - Cardinality({h \in 1..Len(pool) :
                                   pool[h].status = "pending" /\ pool[h].from = address})

\* self.w3.eth.get_balance(check_address): the balance of the latest block.
BalanceRead(address) == eth[address]

\* get_balance(address): the address defaults to the wallet's; the balance is
\* read and returned in wei and, as a float, in ETH; any exception is printed
\* and None returned.  Nothing is written.
GetBalance(p) ==
    /\ wallet[p] # "none"
    /\ pc[p] = "idle"
    /\ reads[p] < MaxReads
    /\ reads' = [reads EXCEPT ![p] = @ + 1]
    /\ \E address \in Accounts \cup {"none"}, rpcOk \in BOOLEAN :
         LET check_address == IF address = "none" THEN wallet[p] ELSE address
             returned == IF rpcOk
                         THEN [address |-> check_address,
                               balance_wei |-> BalanceRead(check_address),
                               balance_eth |-> FloatOf(BalanceRead(check_address) * 2),
                               block |-> Height]
                         ELSE NoneReturn
         IN  /\ view' = [view EXCEPT ![p] = [last |-> returned, prev |-> @.last]]
             /\ swallowed' = [swallowed EXCEPT ![p] = @ \/ ~rpcOk]
    /\ UNCHANGED <<chainVars, bootVars, calc, tool, quote, x402, pc, frame, req, checks, seen, cnt, txn,
                   waited, err, result, rejected>>

\* The other caller's one operation: a send_eth.
Transfer(p) ==
    \E amount \in Amounts :
        Start(p, [kind |-> "send_eth", amount |-> amount, auto_approve |-> FALSE,
                  owner |-> "none", receiver |-> "none", gas_limit |-> NoGas])

NextBalance ==
    \/ GetBalance("p1")
    \/ Transfer("p2")
    \/ Validate("p2")
    \/ Build("p2")
    \/ Sign("p2")
    \/ Broadcast("p2")
    \/ Tick("p2")
    \/ ReceiptTimedOut("p2")
    \/ ReceiptError("p2")
    \/ Receipt("p2")
    \/ Return("p2")
    \/ \E h \in 1..Len(pool) : Mine(h)

SpecBalance == Init /\ [][NextBalance]_vars

\* ---------------------------------------------------------------------------
\* send_eth_from_smart_wallet (tools.py) and the configuration it reads
\* (config.py): the environment is read once into Config when the module is
\* loaded, and the function prepares a transaction and returns a text.

\* The text of the CHAIN_ID variable.
EnvChainIds == {NoValue, "", "0", "1", "42161"}
EnvSettings == {NoValue, "set"}
NoChainId == 0 - 1
NoTx == [from |-> "none", value |-> 0, gas |-> 0, nonce |-> NoNonce, chainId |-> NoChainId]

\* int(text) of the texts above.
IntOf(text) ==
    CASE text = "0" -> 0
      [] text = "1" -> 1
      [] text = "42161" -> 42161

\* value or default: the default replaces None and every other falsy value.
OrDefault(value, default) == IF value = NoChainId \/ value = 0 THEN default ELSE value

InitSmartWallet ==
    /\ eth = [a \in Accounts |-> InitBalance]
    /\ token = [a \in Accounts |-> InitBalance]
    /\ allowance = [a \in Accounts |-> InitAllowance]
    /\ shares = [a \in Accounts |-> InitShares]
    /\ nonce = [a \in Accounts |-> 0]
    /\ pool = <<>>
    /\ wallet = [p \in Procs |-> "none"]
    /\ pc = [p \in Procs |-> "idle"]
    /\ frame = [p \in Procs |-> "main"]
    /\ req = [p \in Procs |-> NoReq]
    /\ checks = [p \in Procs |-> {}]
    /\ seen = [p \in Procs |-> NotRead]
    /\ cnt = [p \in Procs |-> [approve |-> ZeroCnt, main |-> ZeroCnt]]
    /\ txn = [p \in Procs |-> [approve |-> NoTxn, main |-> NoTxn]]
    /\ waited = [p \in Procs |-> 0]
    /\ err = [p \in Procs |-> NoErr]
    /\ result = [p \in Procs |-> NoResult]
    /\ rejected = [p \in Procs |-> FALSE]
    /\ swallowed = [p \in Procs |-> FALSE]
    /\ env = [p \in Procs |-> NoEnv]
    /\ connects = [p \in Procs |-> 0]
    /\ bootErr = [p \in Procs |-> "none"]
    /\ view = [p \in Procs |-> NoView]
    /\ reads = [p \in Procs |-> 0]
    /\ calc = NoCalc
    /\ quote = NoQuote
    /\ x402 = NoX402
    /\ \E app_id \in EnvSettings, app_secret \in EnvSettings, rpc_url \in EnvSettings,
          chain_id \in EnvChainIds :
         tool = [stage |-> "env",
                 env |-> [PRIVY_APP_ID |-> app_id, PRIVY_APP_SECRET |-> app_secret,
                          WEB3_RPC_URL |-> rpc_url, CHAIN_ID |-> chain_id],
                 CHAIN_ID |-> NoChainId, output |-> "none", tx |-> NoTx]

\* class Config: CHAIN_ID = int(os.getenv("CHAIN_ID", "1")) if
\* os.getenv("CHAIN_ID") else None; the other three settings are the
\* variables as they are.
LoadConfig ==
    /\ tool.stage = "env"
    /\ tool' = [tool EXCEPT !.stage = "loaded",
                            !.CHAIN_ID = IF Absent(tool.env.CHAIN_ID) THEN NoChainId
                                         ELSE IntOf(tool.env.CHAIN_ID)]
    /\ UNCHANGED <<chainVars, opVars, bootVars, view, reads, calc, quote, x402>>

\* A prepared transaction signed and sent to the network.
ToolBroadcasts(tx) ==
    /\ pool' = IF tx = NoTx THEN pool
               ELSE Append(pool, [from |-> tx.from, nonce |-> tx.nonce, kind |-> "send_eth",
                                  units |-> tx.value, owner |-> tx.from, receiver |-> tx.from,
                                  gas |-> tx.gas, token |-> "none", spender |-> "none",
                                  status |-> "pending"])
    /\ nonce' = IF tx = NoTx THEN nonce ELSE [nonce EXCEPT ![tx.from] = @ + 1]
    /\ UNCHANGED <<eth, token, allowance, shares>>

\* What the function does with the transaction it put together: nothing but
\* describe it in the returned text ("This function prepares the transaction
\* but cannot sign/send it").
ToolHandsOver(tx) == UNCHANGED chainVars

\* send_eth_from_smart_wallet(user_id, to_address, amount_eth): the settings
\* are looked at, the provider is connected, the user is fetched from Privy,
\* the smart wallet is found among the linked accounts and the transaction is
\* put together, gas price and nonce asked of the provider; the text returned
\* says which of these it came to.  An exception of the Privy request or of a
\* provider query is caught and returned as a text too.
SendEthFromSmartWallet ==
    /\ tool.stage = "loaded"
    /\ \E amount_eth \in Amounts, connected \in BOOLEAN, privyOk \in BOOLEAN,
          status_code \in {200, 404}, smart_wallet \in Accounts \cup {"none", ""},
          rpcOk \in BOOLEAN :
         LET output ==
                 IF Absent(tool.env.PRIVY_APP_ID) THEN "Error: PRIVY_APP_ID is not configured"
                 ELSE IF Absent(tool.env.PRIVY_APP_SECRET)
                 THEN "Error: PRIVY_APP_SECRET is not configured"
                 ELSE IF Absent(tool.env.WEB3_RPC_URL)
                 THEN "Error: WEB3_RPC_URL is not configured"
                 ELSE IF ~connected THEN "Error: Failed to connect to Ethereum RPC provider"
                 ELSE IF ~privyOk THEN "Error: Failed to communicate with Privy API"
                 ELSE IF status_code # 200 THEN "Error: Failed to get user information"
                 ELSE IF smart_wallet = "none" THEN "Error: Smart Wallet not found"
                 ELSE IF smart_wallet = "" THEN "Error: Smart wallet address not found"
                 ELSE IF ~rpcOk THEN "Error sending ETH from smart wallet"
                 ELSE "Transaction prepared successfully"
             chain_id == OrDefault(tool.CHAIN_ID, 1)
             tx == IF output = "Transaction prepared successfully"
                   THEN [from |-> smart_wallet, value |-> amount_eth \div 2,
                         gas |-> 21000, nonce |-> nonce[smart_wallet],
                         chainId |-> chain_id]
                   ELSE NoTx
         IN  /\ tool' = [tool EXCEPT !.stage = "returned", !.output = output, !.tx = tx]
             /\ ToolHandsOver(tx)
    /\ UNCHANGED <<opVars, bootVars, view, reads, calc, quote, x402>>

NextSmartWallet == LoadConfig \/ SendEthFromSmartWallet

SpecSmartWallet == InitSmartWallet /\ [][NextSmartWallet]_vars

\* ---------------------------------------------------------------------------
\* send_eth and what it costs: one call followed from its balance check to the
\* answer of the node it sends to, with the price of gas in the picture.  The
\* amounts and the balances are counted in half ETH, of WeiPerHalfEth wei each
\* (scaled down from 5 * 10**17), and the gas price is 1 or 2 wei.
WeiPerHalfEth == 50000
GasPrices == {1, 2}

InitFee ==
    /\ eth = [a \in Accounts |-> InitBalance]
    /\ token = [a \in Accounts |-> InitBalance]
    /\ allowance = [a \in Accounts |-> InitAllowance]
    /\ shares = [a \in Accounts |-> InitShares]
    /\ nonce = [a \in Accounts |-> 0]
    /\ pool = <<>>
    /\ wallet = [p \in Procs |-> "none"]
    /\ pc = [p \in Procs |-> "idle"]
    /\ frame = [p \in Procs |-> "main"]
    /\ req = [p \in Procs |-> NoReq]
    /\ checks = [p \in Procs |-> {}]
    /\ seen = [p \in Procs |-> NotRead]
    /\ cnt = [p \in Procs |-> [approve |-> ZeroCnt, main |-> ZeroCnt]]
    /\ txn = [p \in Procs |-> [approve |-> NoTxn, main |-> NoTxn]]
    /\ waited = [p \in Procs |-> 0]
    /\ err = [p \in Procs |-> NoErr]
    /\ result = [p \in Procs |-> NoResult]
    /\ rejected = [p \in Procs |-> FALSE]
    /\ swallowed = [p \in Procs |-> FALSE]
    /\ env = [p \in Procs |-> NoEnv]
    /\ connects = [p \in Procs |-> 0]
    /\ bootErr = [p \in Procs |-> "none"]
    /\ view = [p \in Procs |-> NoView]
    /\ reads = [p \in Procs |-> 0]
    /\ calc = NoCalc
    /\ tool = NoTool
    /\ x402 = NoX402
    /\ \E balance \in 0..MaxQuote, amount_eth \in 1..MaxQuote, gas_price \in GasPrices :
         quote = [stage |-> "called", balance_wei |-> balance * WeiPerHalfEth,
                  amount_eth |-> amount_eth, gas_price |-> gas_price,
                  value |-> 0, gas |-> 0, error |-> "none"]

\* "# Verificar balance": balance = self.get_balance(), a failed query coming
\* back as None; balance['balance_eth'] < amount_eth raises ValueError.
QuoteValidate ==
    /\ quote.stage = "called"
    /\ \E rpcOk \in BOOLEAN :
         LET balance_eth == FloatOfRatio(quote.balance_wei, WeiPerHalfEth)
         IN  IF ~rpcOk
             THEN quote' = [quote EXCEPT !.stage = "failed", !.error = "TypeError"]
             ELSE IF balance_eth < quote.amount_eth
             THEN quote' = [quote EXCEPT !.stage = "failed", !.error = "InsufficientBalance"]
             ELSE quote' = [quote EXCEPT !.stage = "validated"]
    /\ UNCHANGED <<chainVars, opVars, bootVars, view, reads, calc, tool, x402>>

\* "# Preparar transaccion": 'value': to_wei(amount_eth, 'ether'), 'gas': 21000,
\* 'gasPrice': gas_price.
QuoteBuild ==
    /\ quote.stage = "validated"
    /\ quote' = [quote EXCEPT !.stage = "built",
                              !.value = quote.amount_eth * WeiPerHalfEth,
                              !.gas = GasLimit("send_eth")]
    /\ UNCHANGED <<chainVars, opVars, bootVars, view, reads, calc, tool, x402>>

\* What a node requires of the sender of a transaction it is sent: a balance
\* of the value and of the gas limit at the gas price.
NodeAdmits(balance_wei, tx) == balance_wei >= tx.value + tx.gas * tx.gas_price

\* "# Firmar" and "# Enviar": the signed transaction is sent and the node
\* takes it or answers insufficient funds, which send_raw_transaction raises.
QuoteSend ==
    /\ quote.stage = "built"
    /\ quote' = IF NodeAdmits(quote.balance_wei, quote)
                THEN [quote EXCEPT !.stage = "sent"]
                ELSE [quote EXCEPT !.stage = "rejected", !.error = "insufficient funds"]
    /\ UNCHANGED <<chainVars, opVars, bootVars, view, reads, calc, tool, x402>>

NextFee == QuoteValidate \/ QuoteBuild \/ QuoteSend

SpecFee == InitFee /\ [][NextFee]_vars

\* ---------------------------------------------------------------------------
\* ServerX402 (server_x402.py): an object holding a list of payment streams
\* and their statistics, and the calls that change them.  A stream is its id
\* (the number after "stream_"), its amount, its status and what was withdrawn
\* and what remains of it; the amounts of the three streams the object starts
\* with are scaled down, 1 for 0.5 ETH and for 125 USDC.  The arguments are
\* the texts of integers, negative ones among them: nothing checks them.

\* random.randint(1000, 9999): two of the numbers it can give.
RandomIds == {1000, 1001}
\* The ids a caller asks about: an active stream, a completed one, the two a
\* create_stream may have given, and one no stream has.
AskedIds == {1, 3, 1000, 1001, 7}
CreateAmounts == {0 - 1, 2}
WithdrawAmounts == {0 - 1, 1, 9}
Durations == {0, 1}

NoRet == [kind |-> "none", stream_id |-> 0, amount |-> 0, index |-> 0]
\* The last call made and its arguments: given is FALSE for an amount of None
\* or of the empty text.
NoCall == [name |-> "none", stream_id |-> 0, given |-> FALSE, amount |-> 0]

\* _generate_mock_data()
MockStreams ==
    << [id |-> 1, amount |-> 2, status |-> "active", withdrawn |-> 1, remaining |-> 1],
       [id |-> 2, amount |-> 4, status |-> "active", withdrawn |-> 2, remaining |-> 2],
       [id |-> 3, amount |-> 4, status |-> "completed", withdrawn |-> 4, remaining |-> 0] >>
MockStats == [total_streams |-> 3, active_streams |-> 2, completed_streams |-> 1]

InitX402 ==
    /\ eth = [a \in Accounts |-> InitBalance]
    /\ token = [a \in Accounts |-> InitBalance]
    /\ allowance = [a \in Accounts |-> InitAllowance]
    /\ shares = [a \in Accounts |-> InitShares]
    /\ nonce = [a \in Accounts |-> 0]
    /\ pool = <<>>
    /\ wallet = [p \in Procs |-> "none"]
    /\ pc = [p \in Procs |-> "idle"]
    /\ frame = [p \in Procs |-> "main"]
    /\ req = [p \in Procs |-> NoReq]
    /\ checks = [p \in Procs |-> {}]
    /\ seen = [p \in Procs |-> NotRead]
    /\ cnt = [p \in Procs |-> [approve |-> ZeroCnt, main |-> ZeroCnt]]
    /\ txn = [p \in Procs |-> [approve |-> NoTxn, main |-> NoTxn]]
    /\ waited = [p \in Procs |-> 0]
    /\ err = [p \in Procs |-> NoErr]
    /\ result = [p \in Procs |-> NoResult]
    /\ rejected = [p \in Procs |-> FALSE]
    /\ swallowed = [p \in Procs |-> FALSE]
    /\ env = [p \in Procs |-> NoEnv]
    /\ connects = [p \in Procs |-> 0]
    /\ bootErr = [p \in Procs |-> "none"]
    /\ view = [p \in Procs |-> NoView]
    /\ reads = [p \in Procs |-> 0]
    /\ calc = NoCalc
    /\ tool = NoTool
    /\ quote = NoQuote
    /\ x402 = [stage |-> "ready", streams |-> MockStreams, stats |-> MockStats,
               ret |-> NoRet, call |-> NoCall, calls |-> 0]

\* get_stream(stream_id): the first stream of the list with that id, as its
\* place in the list; 0 for None.
StreamIndex(streams, stream_id) ==
    IF \E i \in 1..Len(streams) : streams[i].id = stream_id
    THEN CHOOSE i \in 1..Len(streams) :
            /\ streams[i].id = stream_id
            /\ \A j \in 1..(i - 1) : streams[j].id # stream_id
    ELSE 0

\* Every other variable is left alone by a call on the ServerX402 object.
X402Frame == UNCHANGED <<chainVars, opVars, bootVars, view, reads, calc, tool, quote>>

\* get_stream(stream_id): a copy of the stream, or None.
GetStream ==
    /\ x402.calls < MaxCalls
    /\ \E stream_id \in AskedIds :
         LET i == StreamIndex(x402.streams, stream_id)
         IN  x402' = [x402 EXCEPT
                 !.calls = @ + 1,
                 !.call = [NoCall EXCEPT !.name = "get_stream", !.stream_id = stream_id],
                 !.ret = IF i = 0 THEN [NoRet EXCEPT !.kind = "None", !.stream_id = stream_id]
                         ELSE [kind |-> "stream", stream_id |-> x402.streams[i].id,
                               amount |-> x402.streams[i].remaining, index |-> i]]
    /\ X402Frame

\* create_stream(sender, receiver, amount, token_address, duration_seconds):
\* the id is drawn, the rate computed (a division by the duration), the
\* stream appended and two statistics raised.
CreateStream ==
    /\ x402.calls < MaxCalls
    /\ \E n \in RandomIds, amount \in CreateAmounts, duration_seconds \in Durations :
         IF duration_seconds = 0
         THEN x402' = [x402 EXCEPT
                 !.calls = @ + 1,
                 !.call = [NoCall EXCEPT !.name = "create_stream", !.given = TRUE,
                                         !.amount = amount],
                 !.ret = [NoRet EXCEPT !.kind = "ZeroDivisionError"]]
         ELSE x402' = [x402 EXCEPT
                 !.calls = @ + 1,
                 !.call = [NoCall EXCEPT !.name = "create_stream", !.given = TRUE,
                                         !.amount = amount],
                 !.streams = Append(@, [id |-> n, amount |-> amount, status |-> "active",
                                        withdrawn |-> 0, remaining |-> amount]),
                 !.stats = [@ EXCEPT !.total_streams = @ + 1, !.active_streams = @ + 1],
                 !.ret = [kind |-> "created", stream_id |-> n, amount |-> amount,
                          index |-> Len(x402.streams) + 1]]
    /\ X402Frame

\* max(0, active_streams - 1)
FloorAtZero(n) == IF n < 0 THEN 0 ELSE n

\* cancel_stream(stream_id): None for an id no stream has; else the first
\* stream with the id is set cancelled, whatever its status was, and the
\* count of active streams lowered by one, not below 0.
CancelStream ==
    /\ x402.calls < MaxCalls
    /\ \E stream_id \in AskedIds :
         LET i == StreamIndex(x402.streams, stream_id)
         IN  IF i = 0
             THEN x402' = [x402 EXCEPT
                     !.calls = @ + 1,
                     !.call = [NoCall EXCEPT !.name = "cancel_stream", !.stream_id = stream_id],
                     !.ret = [NoRet EXCEPT !.kind = "None", !.stream_id = stream_id]]
             ELSE x402' = [x402 EXCEPT
                     !.calls = @ + 1,
                     !.call = [NoCall EXCEPT !.name = "cancel_stream", !.stream_id = stream_id],
                     !.streams[i].status = "cancelled",
                     !.stats.active_streams = FloorAtZero(@ - 1),
                     !.ret = [kind |-> "cancelled", stream_id |-> stream_id,
                              amount |-> x402.streams[i].remaining, index |-> i]]
    /\ X402Frame

\* A stream of any status paid from.
WithdrawableAlways(stream) == TRUE

\* if stream["status"] != "active": return {"error": ...}
Withdrawable(stream) == stream.status = "active"

\* A request above what remains refused.
WithdrawAmountStrict(given, amount, available) ==
    IF ~given THEN available
    ELSE IF amount > available THEN 0
    ELSE amount

\* withdraw_amount = int(amount) if amount else available; if withdraw_amount
\* > available: withdraw_amount = available
WithdrawAmount(given, amount, available) ==
    IF ~given THEN available
    ELSE IF amount > available THEN available
    ELSE amount

\* withdraw_from_stream(stream_id, amount): an error for an id no stream has
\* and for a stream that is not active; else the amount (all that remains
\* when none is given, given = FALSE for None and for the empty text) is
\* moved from remaining to withdrawn in the first stream with the id, which
\* is completed when nothing remains.
WithdrawFromStream ==
    /\ x402.calls < MaxCalls
    /\ \E stream_id \in AskedIds, given \in BOOLEAN, amount \in WithdrawAmounts :
         LET i == StreamIndex(x402.streams, stream_id)
             asked == [name |-> "withdraw_from_stream", stream_id |-> stream_id,
                       given |-> given, amount |-> IF given THEN amount ELSE 0]
         IN  IF i = 0
             THEN x402' = [x402 EXCEPT
                     !.calls = @ + 1,
                     !.call = asked,
                     !.ret = [NoRet EXCEPT !.kind = "error: Stream not found",
                                           !.stream_id = stream_id]]
             ELSE IF ~Withdrawable(x402.streams[i])
             THEN x402' = [x402 EXCEPT
                     !.calls = @ + 1,
                     !.call = asked,
                     !.ret = [NoRet EXCEPT !.kind = "error: cannot withdraw",
                                           !.stream_id = stream_id]]
             ELSE LET withdraw_amount ==
                          WithdrawAmount(given, amount, x402.streams[i].remaining)
                      remaining == x402.streams[i].remaining - withdraw_amount
                  IN  x402' = [x402 EXCEPT
                          !.calls = @ + 1,
                          !.call = asked,
                          !.streams[i] = [@ EXCEPT
                              !.withdrawn = @ + withdraw_amount,
                              !.remaining = remaining,
                              !.status = IF remaining = 0 THEN "completed" ELSE @],
                          !.ret = [kind |-> "success", stream_id |-> stream_id,
                                   amount |-> withdraw_amount, index |-> i]]
    /\ X402Frame

NextX402 == GetStream \/ CreateStream \/ CancelStream \/ WithdrawFromStream

SpecX402 == InitX402 /\ [][NextX402]_vars

\* ------------------------------------------------------------ claims
Frames == {"approve", "main"}
Spending == {"supply_to_aave", "deposit"}
PreconditionErrors == {"InsufficientBalance", "InsufficientAllowance", "InsufficientShares"}

\* C1: an operation whose balance, allowance or share precondition check fails
\* broadcasts nothing.  The balance and share checks are the operation ending
\* with their error; the allowance check of supply_to_aave/deposit has failed
\* when auto_approve is off and the on-chain allowance is below amount_units
\* (the case the specification calls InsufficientAllowance), and then no step
\* of the operation may be a broadcast.
C1_NoBroadcastOnFailedPrecondition ==
    [][\A p \in Procs :
        /\ err'[p].kind \in PreconditionErrors =>
              cnt'[p]["approve"].sends + cnt'[p]["main"].sends = 0
        /\ ( /\ req[p].kind \in Spending
             /\ ~req[p].auto_approve
             /\ allowance[wallet[p]] < AmountUnits(req[p].amount) )
           => cnt'[p]["main"].sends = cnt[p]["main"].sends]_vars

\* The checks an operation owes before it signs: the balance, and the
\* allowance where it spends through a spender (the pool, the vault).
RequiredChecks(kind) ==
    IF kind \in Spending THEN {"balance", "allowance"}
    ELSE IF kind = "approve_token" THEN {}
    ELSE {"balance"}

\* C2: the main transaction of an operation is signed only after every
\* precondition check the operation owes has been evaluated in this operation;
\* no sign step skips a check.
C2_SignedOnlyAfterChecks ==
    \A p \in Procs :
        cnt[p]["main"].signs > 0 => RequiredChecks(req[p].kind) \subseteq checks[p]

\* The operation holds a transaction it built: unsigned, signed or sent.
HoldsTx(p) == pc[p] \in {"sign", "send", "wait"}

\* C3: two concurrent operations of one account never hold transactions built
\* with the same nonce, the network's nonce growing only when it accepts a
\* sent transaction.
C3_DistinctNoncesPerAccount ==
    \A p, q \in Procs :
        (p # q /\ wallet[p] = wallet[q] /\ HoldsTx(p) /\ HoldsTx(q))
        => txn[p][frame[p]].nonce # txn[q][frame[q]].nonce

\* The operation is between its nonce query and its broadcast.
InSequence(p) == pc[p] \in {"sign", "send"}

\* C4: at most one operation per account is between its nonce query and its
\* broadcast.
C4_OneSequencePerAccount ==
    \A p, q \in Procs :
        (p # q /\ wallet[p] = wallet[q]) => ~(InSequence(p) /\ InSequence(q))

\* supply_to_aave/deposit with auto_approve whose allowance query returned
\* less than amount_units.
AutoApproving(p) ==
    /\ req[p].kind \in Spending
    /\ req[p].auto_approve
    /\ seen[p] # NotRead
    /\ seen[p] < AmountUnits(req[p].amount)

C6_FailedApproveIsApprovalFailed ==
    \A p \in Procs :
        (pc[p] = "failed" /\ err[p].stage = "approve" /\ cnt[p]["approve"].sends = 1)
        => err[p].kind = "ApprovalFailed" /\ cnt[p]["main"] = ZeroCnt

\* C7: one invocation builds, signs and broadcasts each of its transactions at
\* most once, and only supply_to_aave/deposit have an approve transaction.
C7_NoRetry ==
    \A p \in Procs :
        /\ \A f \in Frames :
              cnt[p][f].builds <= 1 /\ cnt[p][f].signs <= 1 /\ cnt[p][f].sends <= 1
        /\ req[p].kind \notin Spending => cnt[p]["approve"] = ZeroCnt
C7_Witness ==
    \E p \in Procs :
        /\ pc[p] = "failed" /\ rejected[p] /\ err[p].stage = "main"
        /\ cnt[p]["approve"].sends = 1 /\ cnt[p]["main"].sends = 1

\* C8: a refused broadcast ends the operation at once with BroadcastError: the
\* refused transaction was sent once, has no hash to wait on, no wait is under
\* way and nothing is returned.
C8_RefusedBroadcastEndsOperation ==
    \A p \in Procs :
        rejected[p] =>
            /\ pc[p] = "failed"
            /\ err[p].kind = "BroadcastError"
            /\ cnt[p][err[p].stage].sends = 1
            /\ txn[p][err[p].stage].tx_hash = NoHash
            /\ waited[p] = 0
            /\ result[p] = NoResult
C8_Witness ==
    \E p \in Procs : rejected[p] /\ pc[p] = "failed" /\ err[p].stage = "main"

\* C9: an operation ends with ConfirmationTimeout only after a wait of 300, with
\* its transaction sent once and still the network's (neither sent again nor
\* withdrawn), and returns nothing.
C9_TimeoutLeavesTransaction ==
    \A p \in Procs :
        err[p].kind = "ConfirmationTimeout" =>
            /\ pc[p] = "failed"
            /\ waited[p] >= 300
            /\ cnt[p][err[p].stage].sends = 1
            /\ err[p].tx_hash \in 1..Len(pool)
            /\ pool[err[p].tx_hash].from = wallet[p]
            /\ pool[err[p].tx_hash].nonce = txn[p][err[p].stage].nonce
            /\ result[p] = NoResult
\* After the timeout the receipt of the same hash says success.
C9_Witness ==
    \E p \in Procs :
        /\ err[p].kind = "ConfirmationTimeout"
        /\ err[p].stage = "main"
        /\ pool[err[p].tx_hash].status = "success"

\* C10: an error raised after the transaction was broadcast carries its hash.
C10_ErrorAfterBroadcastCarriesHash ==
    \A p \in Procs :
        (pc[p] = "failed" /\ txn[p][err[p].stage].tx_hash # NoHash)
        => err[p].tx_hash = txn[p][err[p].stage].tx_hash

\* C11: the status of a returned outcome is 'success' exactly when the receipt's
\* status bit is 1 and 'failed' exactly when it is 0; a main transaction that
\* was mined and reverted gives a returned outcome with status 'failed' and the
\* transaction's hash, and an operation holding the receipt of its main
\* transaction never ends with an error.
C11_StatusFollowsReceiptBit ==
    \A p \in Procs :
        /\ pc[p] = "done" =>
              /\ result[p].tx_hash = txn[p]["main"].tx_hash
              /\ result[p].tx_hash \in 1..Len(pool)
              /\ result[p].status = "success" <=> txn[p]["main"].status = 1
              /\ result[p].status = "failed" <=> txn[p]["main"].status = 0
              /\ pool[result[p].tx_hash].status = "reverted" => result[p].status = "failed"
              /\ pool[result[p].tx_hash].status = "success" => result[p].status = "success"
        /\ (frame[p] = "main" /\ txn[p]["main"].status # NoStatus) =>
              pc[p] \in {"status", "done"} /\ err[p] = NoErr
C11_Witness ==
    \E p \in Procs :
        /\ pc[p] = "done"
        /\ result[p].status = "failed"
        /\ pool[result[p].tx_hash].status = "reverted"

\* C12: an operation has returned an outcome only with the receipt of its
\* broadcast main transaction in hand, the transaction mined; between broadcast
\* and receipt nothing is returned.
C12_OutcomeOnlyAfterReceipt ==
    \A p \in Procs :
        /\ result[p] # NoResult <=> pc[p] = "done"
        /\ result[p] # NoResult =>
              /\ cnt[p]["main"].sends = 1
              /\ txn[p]["main"].status \in {0, 1}
              /\ result[p].tx_hash \in 1..Len(pool)
              /\ pool[result[p].tx_hash].status # "pending"
C12_Witness ==
    \E p \in Procs :
        /\ req[p].kind \in {"send_erc20", "redeem"}
        /\ result[p] # NoResult
        /\ pool[result[p].tx_hash].status = "success"

\* The phase an operation is in, as its place in the order Validating (1),
\* Approving (2: the whole approve_token pipeline inside supply_to_aave and
\* deposit), Building (3), Signing (4), Broadcasting (5), Confirming (6),
\* Done (7); 8 is the terminal failure and 0 the operation not called yet.
PhaseRank(at, fr) ==
    IF at = "idle" THEN 0
    ELSE IF at = "failed" THEN 8
    ELSE IF at = "done" THEN 7
    ELSE IF at \in {"validate", "allowance"} THEN 1
    ELSE IF fr = "approve" THEN 2
    ELSE IF at = "build" THEN 3
    ELSE IF at = "sign" THEN 4
    ELSE IF at = "send" THEN 5
    ELSE 6

\* C13: every step of an operation stays in its phase, enters the next phase
\* (Approving may be skipped; approve_token, which has no precondition check,
\* starts at Building), or ends in the terminal failure: no phase is entered
\* early and none is entered twice.
C13_PhasesInOrder ==
    [][\A p \in Procs :
        LET was == PhaseRank(pc[p], frame[p])
            now == PhaseRank(pc'[p], frame'[p])
        IN  \/ now = was
            \/ now = was + 1 /\ was < 7
            \/ was = 1 /\ now = 3
            \/ was = 0 /\ now = 3 /\ req'[p].kind = "approve_token"
            \/ now = 8 /\ was \in 1..6]_vars
C13_Witness ==
    \E p \in Procs :
        /\ pc[p] = "done"
        /\ txn[p]["approve"].status = 1
        /\ result[p].status = "success"

\* C14: the validation of a supply_to_aave or deposit request with
\* auto_approve off, made while the token balance covers the requested amount
\* and the on-chain allowance is below it, ends the operation with
\* InsufficientAllowance: it never passes on to the build.
C14_LowAllowanceFailsValidation ==
    [][\A p \in Procs :
        ( /\ pc[p] = "validate"
          /\ "balance" \in checks'[p]
          /\ req[p].kind \in Spending
          /\ ~req[p].auto_approve
          /\ token[wallet[p]] * 2 >= req[p].amount
          /\ allowance[wallet[p]] < AmountUnits(req[p].amount) )
        => pc'[p] = "failed" /\ err'[p].kind = "InsufficientAllowance"]_vars

\* C15: the balance check of send_eth, its balance query answered, raises
\* InsufficientBalance exactly when the sender's native balance is less than
\* the requested value, and then nothing has been built.
C15_SendEthBalanceCheckExact ==
    [][\A p \in Procs :
        (pc[p] = "validate" /\ req[p].kind = "send_eth" /\ "balance" \in checks'[p])
        => /\ err'[p].kind = "InsufficientBalance" <=> eth[wallet[p]] * 2 < req[p].amount
           /\ err'[p].kind = "InsufficientBalance" => cnt'[p]["main"] = ZeroCnt]_vars

\* C16: the balance check of send_erc20, its balance query answered, stops the
\* operation with InsufficientBalance and nothing built, signed or broadcast
\* when the token balance is below the requested amount, and passes on to the
\* build when the balance is equal to the amount or above it.
C16_SendErc20BalanceCheck ==
    [][\A p \in Procs :
        (pc[p] = "validate" /\ req[p].kind = "send_erc20" /\ "balance" \in checks'[p])
        => IF token[wallet[p]] * 2 < req[p].amount
           THEN /\ pc'[p] = "failed"
                /\ err'[p].kind = "InsufficientBalance"
                /\ cnt'[p]["main"] = ZeroCnt
           ELSE pc'[p] = "build"]_vars

\* C17: the share check of redeem, its query answered, raises InsufficientShares
\* exactly when the vault shares of the owner argument (the wallet's only when
\* no owner is given) are fewer than the requested shares taken as whole base
\* units, int(shares), with nothing built or broadcast; and the redeem
\* transaction carries those same whole units and that owner.
C17_RedeemShareCheck ==
    [][\A p \in Procs :
        /\ (pc[p] = "validate" /\ req[p].kind = "redeem" /\ "balance" \in checks'[p])
           => /\ err'[p].kind = "InsufficientShares"
                    <=> shares[IF req[p].owner = "none" THEN wallet[p] ELSE req[p].owner]
                            < req[p].amount \div 2
              /\ err'[p].kind = "InsufficientShares" =>
                    pc'[p] = "failed" /\ cnt'[p]["main"] = ZeroCnt
              /\ err'[p].kind # "InsufficientShares" => pc'[p] = "build"
        /\ (req[p].kind = "redeem" /\ pc[p] = "send" /\ pc'[p] = "wait")
           => /\ pool'[Len(pool')].units = req[p].amount \div 2
              /\ pool'[Len(pool')].owner =
                    (IF req[p].owner = "none" THEN wallet[p] ELSE req[p].owner)]_vars
C17_Witness ==
    \E p \in Procs :
        /\ err[p].kind = "InsufficientShares"
        /\ req[p].owner \notin {"none", wallet[p]}
        /\ shares[req[p].owner] > shares[wallet[p]]
        /\ cnt[p]["main"].sends = 0

\* What the operation's own mined transfer took from the sender's balance.
Spent(p) ==
    LET h == txn[p]["main"].tx_hash
    IN  IF h # NoHash /\ pool[h].status = "success" THEN pool[h].units ELSE 0

\* send_eth for half of a balance of two base units: balance 1.0, amount 0.5.
HalfOfBalance(p) ==
    /\ req[p].kind = "send_eth"
    /\ req[p].amount = 2
    /\ eth[wallet[p]] + Spent(p) = 2

\* C18: send_eth with balance 1.0 and amount 0.5 passes its balance check,
\* builds one transaction, of value 0.5 in base units and gas limit 21000, and,
\* the network taking the broadcast and confirming with status 1, returns an
\* outcome of status success.
C18_SendHalfOfBalance ==
    \A p \in Procs :
        HalfOfBalance(p) =>
            /\ err[p].kind \notin PreconditionErrors
            /\ cnt[p]["main"].builds <= 1
            /\ txn[p]["main"].tx_hash # NoHash =>
                  /\ cnt[p]["main"].builds = 1
                  /\ pool[txn[p]["main"].tx_hash].units = 1
                  /\ pool[txn[p]["main"].tx_hash].units * 2 = req[p].amount
                  /\ pool[txn[p]["main"].tx_hash].gas = 21000
                  /\ pool[txn[p]["main"].tx_hash].status # "reverted"
            /\ txn[p]["main"].status # NoStatus =>
                  txn[p]["main"].status = 1 /\ pc[p] \in {"status", "done"}
            /\ pc[p] = "done" => result[p].status = "success"
C18_Witness ==
    \E p \in Procs :
        HalfOfBalance(p) /\ pc[p] = "done" /\ result[p].status = "success"

\* C19: an operation that caught the exception of a failed network query ends
\* with an error: it never goes on to return a value.
C19_NoErrorSwallowed ==
    \A p \in Procs : swallowed[p] => pc[p] = "failed"

\* C20: with the signing key or the provider project id absent from the
\* environment, create_wallet_from_env ends with a configuration error or has
\* not run: no connection is attempted, no wallet exists, no operation runs.
C20_MissingConfigurationFailsFirst ==
    \A p \in Procs :
        (env[p].key \in {NoValue, ""} \/ env[p].project \in {NoValue, ""}) =>
            /\ bootErr[p] \in {"none", "ConfigurationError"}
            /\ connects[p] = 0
            /\ wallet[p] = "none"
            /\ pc[p] = "idle"
C20_Witness ==
    \E p \in Procs :
        /\ bootErr[p] = "ConfigurationError"
        /\ env[p].key = "kA"
        /\ env[p].project = ""
        /\ env[p].network = "testnet-x"

\* ---------------------------------------------------------------------------
\* C21: the construction of a WalletManager fails with ConnectionError when
\* the provider does not answer and with an error when the network name is not
\* a supported one; a failed construction leaves no wallet object, and an
\* operation runs only on a wallet whose construction raised nothing.
C21_FailedConstructionLeavesNoWallet ==
    \A p \in Procs :
        /\ bootErr[p] \in {"ConnectionError", "UnsupportedNetwork"}
               => wallet[p] = "none" /\ pc[p] = "idle"
        /\ ( /\ ~Absent(env[p].key)
             /\ ~Absent(env[p].project)
             /\ env[p].network \notin SupportedNetworks \cup {NoValue} )
               => /\ bootErr[p] \in {"none", "UnsupportedNetwork"}
                  /\ wallet[p] = "none"
                  /\ connects[p] = 0
        /\ pc[p] # "idle" => wallet[p] # "none" /\ bootErr[p] = "none"

\* The provider did not answer the one connection the construction made.
C21_Witness ==
    \E p \in Procs :
        /\ bootErr[p] = "ConnectionError"
        /\ connects[p] = 1
        /\ wallet[p] = "none"

\* ---------------------------------------------------------------------------
\* What a session shows: the values interpolated into the printed lines, the
\* values of the returned dict and the values in the messages of the errors,
\* each as the string it is shown as.  private_key is the argument __init__
\* received; the account made of it signs, and nothing else reads it.

\* network=os.getenv('NETWORK', 'sepolia')
NetworkOf(p) == IF env[p].network = NoValue THEN "sepolia" ELSE env[p].network

\* A constructor that also prints the key it loaded.
InitPrintsKey(p, private_key) ==
    IF wallet[p] # "none" THEN {NetworkOf(p), wallet[p], private_key} ELSE {}

\* print(f"Conectado a {network} via Infura"); print(f"Wallet Address: {self.address}")
InitPrints(p, private_key) ==
    IF wallet[p] # "none" THEN {NetworkOf(p), wallet[p]}
    ELSE IF bootErr[p] = "InvalidKey" THEN {NetworkOf(p)}
    ELSE {}

\* ConnectionError(f"No se pudo conectar a Infura ({network})"),
\* ValueError(f"Red no soportada: {network}. ..."), the two fixed messages of
\* create_wallet_from_env, and the error of Account.from_key.
InitErrors(p, private_key) ==
    IF bootErr[p] = "none" THEN {}
    ELSE IF bootErr[p] \in {"ConnectionError", "UnsupportedNetwork"}
    THEN {bootErr[p], NetworkOf(p)}
    ELSE {bootErr[p]}

\* The lines an operation prints up to where it stands: sender, amount, the
\* status of the receipt.
OpPrints(p) ==
    IF pc[p] \in {"idle", "validate"} THEN {}
    ELSE {wallet[p], ToString(req[p].amount)}
             \cup (IF result[p] # NoResult THEN {result[p].status} ELSE {})

\* The dict an operation returns: status, from, amount, shares or
\* assets_received.
OpReturns(p) ==
    IF result[p] = NoResult THEN {}
    ELSE {result[p].status, wallet[p], ToString(req[p].amount), ToString(result[p].extra)}

\* The error an operation raised.
OpErrors(p) == IF err[p] = NoErr THEN {} ELSE {err[p].kind, err[p].stage}

Outputs(p, private_key) ==
    InitPrints(p, private_key) \cup InitErrors(p, private_key)
        \cup OpPrints(p) \cup OpReturns(p) \cup OpErrors(p)

RoundUnits(amount) ==
    (amount \div 2) + (IF amount % 2 = 1 /\ (amount \div 2) % 2 = 1 THEN 1 ELSE 0)

\* C23: the base-unit amount carried by the transaction of a token transfer,
\* an approve with an amount, a supply or a deposit is round(amount *
\* 10^decimals), for every amount of the set.
C23_UnitsAreRounded ==
    \A p \in Procs :
        ( /\ req[p].kind \in {"send_erc20", "approve_token", "supply_to_aave", "deposit"}
          /\ req[p].amount # NoAmount
          /\ txn[p]["main"].tx_hash # NoHash )
        => pool[txn[p]["main"].tx_hash].units = RoundUnits(req[p].amount)

\* ---------------------------------------------------------------------------
\* C24: an amount in human units made base units and made human units again
\* with the same decimals comes back within one base unit of the amount.
C24_RoundTripWithinOneUnit ==
    calc.stage = "tokens"
        => /\ (calc.tokens - calc.amount) * Pow10(calc.decimals) <= Grain
           /\ (calc.amount - calc.tokens) * Pow10(calc.decimals) <= Grain

\* ---------------------------------------------------------------------------
\* C25: the gas limit of every transaction that was built and sent is fixed by
\* the call alone, whatever the chain holds: 21000 in send_eth; in a contract
\* call the gas_limit argument of the operation that builds it, 100000 by
\* default in send_erc20 and approve_token (the approve inside a supply or a
\* deposit included) and 500000 in supply_to_aave, deposit and redeem.
C25_GasLimitFixedByCall ==
    \A p \in Procs : \A f \in Frames :
        txn[p][f].tx_hash # NoHash
        => pool[txn[p][f].tx_hash].gas =
              IF f = "approve" THEN 100000
              ELSE IF req[p].kind = "send_eth" THEN 21000
              ELSE IF req[p].gas_limit # NoGas THEN req[p].gas_limit
              ELSE IF req[p].kind \in {"send_erc20", "approve_token"} THEN 100000
              ELSE 500000

\* A deposit or a supply called with its own gas limit sent its approve with
\* the default of approve_token and its own transaction with the limit given.
C25_Witness ==
    \E p \in Procs :
        /\ req[p].gas_limit = CustomGas
        /\ txn[p]["approve"].tx_hash # NoHash
        /\ txn[p]["main"].tx_hash # NoHash
        /\ pool[txn[p]["approve"].tx_hash].gas = 100000
        /\ pool[txn[p]["main"].tx_hash].gas = CustomGas
        /\ token[wallet[p]] # InitBalance

\* ---------------------------------------------------------------------------
\* C26: an approve transaction is built, signed or broadcast inside an
\* operation only in a supply_to_aave or a deposit called with auto_approve
\* whose allowance query answered less than the amount in base units: never
\* without auto_approve, never with an allowance equal to the amount or above
\* it, never in send_eth, send_erc20 or redeem.
C26_ApproveOnlyWhenAllowanceShort ==
    \A p \in Procs :
        (cnt[p]["approve"] # ZeroCnt \/ txn[p]["approve"] # NoTxn)
        => /\ req[p].kind \in Spending
           /\ req[p].auto_approve
           /\ seen[p] # NotRead
           /\ seen[p] < AmountUnits(req[p].amount)

\* A supply or a deposit with auto_approve found the allowance exactly equal
\* to its amount and sent its own transaction with no approve before it.
C26_Witness ==
    \E p \in Procs :
        /\ req[p].kind \in Spending
        /\ req[p].auto_approve
        /\ seen[p] = AmountUnits(req[p].amount)
        /\ seen[p] > 0
        /\ cnt[p]["approve"] = ZeroCnt
        /\ cnt[p]["main"].sends = 1
        /\ pc[p] = "done"

\* ---------------------------------------------------------------------------
\* C27: the approve sent from within supply_to_aave or deposit approves
\* 2^256 - 1, whatever amount the operation was asked for, with the asset as
\* token and the pool or the vault as spender; approve_token called with an
\* amount approves that amount in base units, amount * 10^decimals to the
\* nearest whole unit.
C27_ApprovedAmount ==
    \A p \in Procs :
        /\ txn[p]["approve"].tx_hash # NoHash
           => LET tx == pool[txn[p]["approve"].tx_hash]
              IN  /\ tx.kind = "approve_token"
                  /\ tx.units = MaxUint256
                  /\ tx.token = IF req[p].kind = "supply_to_aave"
                                THEN "asset_address" ELSE "token_address"
                  /\ tx.spender = IF req[p].kind = "supply_to_aave"
                                  THEN "pool_address" ELSE "contract_address"
        /\ (req[p].kind = "approve_token" /\ txn[p]["main"].tx_hash # NoHash)
           => LET tx == pool[txn[p]["main"].tx_hash]
              IN  /\ tx.kind = "approve_token"
                  /\ tx.spender = "spender_address"
                  /\ tx.units = IF req[p].amount = NoAmount THEN MaxUint256
                                ELSE RoundUnits(req[p].amount)

\* ---------------------------------------------------------------------------
\* C28: in a successful outcome whose read after the receipt was answered,
\* 'shares' of deposit is the number of vault shares this deposit gave the
\* receiver and 'assets_received' of redeem is the amount of assets this
\* redeem gave the receiver, whatever the receiver held before.
C28_OutcomeReportsWhatWasReceived ==
    \A p \in Procs :
        ( /\ pc[p] = "done"
          /\ result[p].status = "success"
          /\ ~swallowed[p]
          /\ req[p].kind \in {"deposit", "redeem"} )
        => LET tx == pool[txn[p]["main"].tx_hash]
           IN  IF req[p].kind = "deposit"
               THEN result[p].extra = tx.units
               ELSE result[p].extra = 2 * tx.units

\* ---------------------------------------------------------------------------
\* C29: a call of get_balance changes nothing on the chain, no balance and no
\* nonce; and of two consecutive calls for the same address that were both
\* answered with no block mined between them, the second returns the balance
\* the first returned.
C29_GetBalanceRepeatable ==
    [][\A p \in Procs :
        reads'[p] # reads[p]
        => /\ chainVars' = chainVars
           /\ ( /\ view'[p].prev.block # NotRead
                /\ view'[p].last.block = view'[p].prev.block
                /\ view'[p].last.address = view'[p].prev.address )
              => /\ view'[p].last.balance_wei = view'[p].prev.balance_wei
                 /\ view'[p].last.balance_eth = view'[p].prev.balance_eth]_vars

\* Two answered calls for one address in the same block, beside a transaction
\* that address has sent.
C29_Witness ==
    \E p \in Procs :
        /\ reads[p] = 2
        /\ view[p].prev.block # NotRead
        /\ view[p].last.block = view[p].prev.block
        /\ view[p].last.address = view[p].prev.address
        /\ view[p].last.balance_wei = view[p].prev.balance_wei
        /\ \E h \in 1..Len(pool) : pool[h].from = view[p].last.address

\* ---------------------------------------------------------------------------
\* C30: the transaction send_eth_from_smart_wallet prepares carries the chain
\* id the CHAIN_ID variable configures when one is set, and chain id 1 when
\* the variable is not set or empty.
C30_PreparedChainId ==
    (tool.stage = "returned" /\ tool.output = "Transaction prepared successfully")
        => tool.tx.chainId = IF Absent(tool.env.CHAIN_ID) THEN 1
                             ELSE IntOf(tool.env.CHAIN_ID)

\* ---------------------------------------------------------------------------
\* C31: within one operation the nonce of a transaction is asked for in that
\* transaction's build step, where it is the account's count of that moment,
\* and goes into one signature at most; when a supply or a deposit approves
\* first, the nonce of its own transaction is asked for after the receipt of
\* the approve was obtained, and the two transactions carry different nonces.
C31_NonceAskedAtBuildUsedOnce ==
    [][\A p \in Procs :
        /\ \A f \in Frames :
             /\ txn'[p][f].nonce # txn[p][f].nonce
                => /\ pc[p] = "build"
                   /\ frame[p] = f
                   /\ txn'[p][f].nonce = nonce[wallet[p]]
                   /\ cnt'[p][f].builds = 1
                   /\ cnt'[p][f].signs = 0
             /\ cnt'[p][f].signs <= 1
        /\ (txn'[p]["approve"].nonce # NoNonce /\ txn'[p]["main"].nonce # NoNonce)
           => /\ txn'[p]["approve"].status # NoStatus
              /\ txn'[p]["main"].nonce # txn'[p]["approve"].nonce]_vars

\* A supply or a deposit that approved first and was mined: two transactions,
\* two nonces, the approve's the lower.
C31_Witness ==
    \E p \in Procs :
        /\ pc[p] = "done"
        /\ cnt[p]["approve"].signs = 1
        /\ cnt[p]["main"].signs = 1
        /\ txn[p]["approve"].nonce # NoNonce
        /\ txn[p]["main"].nonce > txn[p]["approve"].nonce

\* ---------------------------------------------------------------------------
\* C32: in supply_to_aave and deposit the balance check comes before the
\* allowance check: the allowance is never asked for before the balance was,
\* and a request whose token balance is below the requested amount ends in
\* its balance check, with InsufficientBalance, no allowance query and nothing
\* built, signed or broadcast, approve included, whatever auto_approve and the
\* allowance are.
C32_BalanceCheckBeforeAllowance ==
    [][\A p \in Procs :
        /\ "allowance" \in checks'[p] => "balance" \in checks'[p]
        /\ ( /\ pc[p] = "validate"
             /\ req[p].kind \in Spending
             /\ "balance" \in checks'[p]
             /\ token[wallet[p]] * 2 < req[p].amount )
           => /\ pc'[p] = "failed"
              /\ err'[p].kind = "InsufficientBalance"
              /\ "allowance" \notin checks'[p]
              /\ cnt'[p]["approve"] = ZeroCnt
              /\ cnt'[p]["main"] = ZeroCnt]_vars

\* ---------------------------------------------------------------------------
\* C33: a send_eth that passed its balance check can pay for itself: when its
\* transaction is built the sender's balance covers the value and the gas
\* limit at the gas price, and the node never answers insufficient funds.
C33_ValidatedTransferCanPay ==
    /\ quote.stage \in {"built", "sent", "rejected"}
          => quote.balance_wei >= quote.value + 21000 * quote.gas_price
    /\ quote.stage # "rejected"

\* ---------------------------------------------------------------------------
\* C34: send_eth_from_smart_wallet signs and broadcasts nothing: every call
\* returns a text, an error or the fields of the transaction it prepared; the
\* balances, the nonces and the pool of the network are as they were, and
\* nothing was built, signed or sent through the wallet.
C34_SmartWalletOnlyPrepares ==
    [][tool'.stage = "returned"
        => /\ chainVars' = chainVars
           /\ cnt' = cnt
           /\ pool' = <<>>
           /\ IF tool'.output = "Transaction prepared successfully"
              THEN /\ tool'.tx.from \in Accounts
                   /\ tool'.tx.gas = 21000
                   /\ tool'.tx.nonce = nonce'[tool'.tx.from]
              ELSE tool'.tx = NoTx]_vars

\* A call that prepared a transaction and left the network without it.
C34_Witness ==
    /\ tool.stage = "returned"
    /\ tool.output = "Transaction prepared successfully"
    /\ tool.tx.from \in Accounts
    /\ tool.tx.nonce = nonce[tool.tx.from]
    /\ pool = <<>>

\* ---------------------------------------------------------------------------
\* C35: withdraw_from_stream on an active stream, asked for more than remains
\* of it or for no amount, withdraws exactly what remains: the return is a
\* success reporting that amount, and the stream is left with remaining 0,
\* the amount added to withdrawn, and status completed.
C35_WithdrawClampsToRemaining ==
    [][(x402'.calls # x402.calls /\ x402'.call.name = "withdraw_from_stream")
        => LET i == StreamIndex(x402.streams, x402'.call.stream_id)
           IN  ( /\ i # 0
                 /\ x402.streams[i].status = "active"
                 /\ (~x402'.call.given \/ x402'.call.amount > x402.streams[i].remaining) )
               => /\ x402'.ret.kind = "success"
                  /\ x402'.ret.amount = x402.streams[i].remaining
                  /\ x402'.streams[i].remaining = 0
                  /\ x402'.streams[i].withdrawn =
                        x402.streams[i].withdrawn + x402.streams[i].remaining
                  /\ x402'.streams[i].status = "completed"]_vars

\* A withdrawal asked for 9 of a stream that had less: what remained was paid
\* and the stream is completed.
C35_Witness ==
    /\ x402.call.name = "withdraw_from_stream"
    /\ x402.call.given
    /\ x402.call.amount = 9
    /\ x402.ret.kind = "success"
    /\ x402.ret.amount > 0
    /\ x402.ret.amount < 9
    /\ x402.streams[x402.ret.index].remaining = 0
    /\ x402.streams[x402.ret.index].status = "completed"

\* ---------------------------------------------------------------------------
\* C36: in every state reached by create_stream, cancel_stream and
\* withdraw_from_stream calls, every stream has withdrawn + remaining = amount
\* and 0 <= remaining <= amount.
C36_StreamConservation ==
    \A i \in 1..Len(x402.streams) :
        /\ x402.streams[i].withdrawn + x402.streams[i].remaining = x402.streams[i].amount
        /\ 0 <= x402.streams[i].remaining
        /\ x402.streams[i].remaining <= x402.streams[i].amount

\* ---------------------------------------------------------------------------
\* C37: the statistics agree with the list of streams: total_streams is the
\* number of streams, active_streams the number of them whose status is
\* active, completed_streams the number whose status is completed.
StreamsWithStatus(status) ==
    Cardinality({i \in 1..Len(x402.streams) : x402.streams[i].status = status})

C37_StatsAgreeWithStreams ==
    /\ x402.stats.total_streams = Len(x402.streams)
    /\ x402.stats.active_streams = StreamsWithStatus("active")
    /\ x402.stats.completed_streams = StreamsWithStatus("completed")

\* ---------------------------------------------------------------------------
\* C38: withdraw_from_stream for an id no stream has, or for a stream that is
\* not active, returns an error and leaves every stream and the statistics as
\* they were; and a stream that is completed or cancelled is never active
\* again, nor do its withdrawn and remaining amounts change.
Closed(stream) == stream.status \in {"completed", "cancelled"}

C38_ClosedStreamsStayClosed ==
    [][/\ (x402'.calls # x402.calls /\ x402'.call.name = "withdraw_from_stream")
          => LET i == StreamIndex(x402.streams, x402'.call.stream_id)
             IN  (i = 0 \/ x402.streams[i].status # "active")
                 => /\ x402'.ret.kind \in {"error: Stream not found",
                                           "error: cannot withdraw"}
                    /\ x402'.streams = x402.streams
                    /\ x402'.stats = x402.stats
       /\ \A i \in 1..Len(x402.streams) :
            Closed(x402.streams[i])
            => /\ Len(x402'.streams) >= i
               /\ x402'.streams[i].status # "active"
               /\ x402'.streams[i].withdrawn = x402.streams[i].withdrawn
               /\ x402'.streams[i].remaining = x402.streams[i].remaining]_vars

\* A withdrawal was asked of a cancelled stream that still holds an amount,
\* and refused.
C38_Witness ==
    /\ x402.call.name = "withdraw_from_stream"
    /\ x402.ret.kind = "error: cannot withdraw"
    /\ LET i == StreamIndex(x402.streams, x402.call.stream_id)
       IN  /\ i # 0
           /\ x402.streams[i].status = "cancelled"
           /\ x402.streams[i].remaining > 0

\* ---------------------------------------------------------------------------
\* C39: the ids of the streams are pairwise distinct, so that the id
\* create_stream returned names the stream it created: a lookup of that id
\* finds the stream just appended.
C39_StreamIdsDistinct ==
    /\ \A i, j \in 1..Len(x402.streams) :
            x402.streams[i].id = x402.streams[j].id => i = j
    /\ x402.ret.kind = "created"
       => StreamIndex(x402.streams, x402.ret.stream_id) = x402.ret.index

====
